---- MODULE Spec2Model ----
(***************************************************************************)
(* Model of agentless/util/api_requests.py: the OpenAI cooldown gate, the  *)
(* OpenAI-style executor (request_chatgpt_engine), the parsing of the      *)
(* server-suggested wait (_extract_retry_after_seconds) and the            *)
(* Anthropic-style executor (request_anthropic_engine).                    *)
(*                                                                         *)
(* Time is counted in ticks of half a second, so 0.5 s = 1 tick.  The wall *)
(* clock itself is unbounded; the model keeps only the differences the     *)
(* code computes from it: since_last = time.time() -                       *)
(* _last_openai_request_ts (values >= the cooldown all behave alike, so it *)
(* saturates there) and the time a sleeping thread still has to sleep.     *)
(***************************************************************************)
EXTENDS Integers, Sequences, FiniteSets, TLC

\* ------------------------------------------------------------------ bounds
NumThreads == 2
\* the evaluations of the while condition of line 70, all calls together: a
\* call with max_retries = m makes up to m + 1 of them
MaxLoopTests == 4

\* ------------------------------------------------------- program constants
\* all durations in half-second ticks
OPENAI_COOLDOWN_SEC == 2       \* 1.0 s, the default of line 216
DefaultRetryAfter == 4         \* 2.0 s, line 93
ConnectionWait == 10           \* 5 s, line 100
UnknownWait == 2               \* 1 s, line 106
MinBump == 512                 \* line 127
AnthropicBackoffStep == 20     \* 10 s per retry, line 207

Threads == 1..NumThreads
None == -1
NoLock == 0

\* ------------------------------------------------------------------- text
\* Python strings are sequences of one-character strings.
Digits == {"0", "1", "2", "3", "4", "5", "6", "7", "8", "9"}

DigitVal(c) ==
    CASE c = "0" -> 0 [] c = "1" -> 1 [] c = "2" -> 2 [] c = "3" -> 3
      [] c = "4" -> 4 [] c = "5" -> 5 [] c = "6" -> 6 [] c = "7" -> 7
      [] c = "8" -> 8 [] c = "9" -> 9

Lower(c) ==
    CASE c = "T" -> "t" [] c = "R" -> "r" [] c = "Y" -> "y" [] c = "A" -> "a"
      [] c = "G" -> "g" [] c = "I" -> "i" [] c = "N" -> "n" [] c = "S" -> "s"
      [] OTHER -> c

IsDigits(s) == \A i \in 1..Len(s) : s[i] \in Digits

RECURSIVE IntVal(_)
IntVal(s) ==
    IF Len(s) = 0 THEN 0
    ELSE 10 * IntVal(SubSeq(s, 1, Len(s) - 1)) + DigitVal(s[Len(s)])

\* value in ticks of a fraction written with the digits s (".5" = 1 tick);
\* the inputs of the model use only the fractions .0 and .5
FracTicks(s) == IF Len(s) = 0 THEN 0 ELSE (2 * DigitVal(s[1])) \div 10

DotAt(s) == IF \E i \in 1..Len(s) : s[i] = "."
            THEN CHOOSE i \in 1..Len(s) : s[i] = "." /\ \A j \in 1..(i - 1) : s[j] # "."
            ELSE 0

\* float(text) for an unsigned decimal numeral: digits, digits.digits,
\* digits. or .digits; anything else is a ValueError
UnsignedFloat(s) ==
    LET d == DotAt(s)
        ip == IF d = 0 THEN s ELSE SubSeq(s, 1, d - 1)
        fp == IF d = 0 THEN <<>> ELSE SubSeq(s, d + 1, Len(s))
    IN  IF IsDigits(ip) /\ IsDigits(fp) /\ Len(ip) + Len(fp) > 0
        THEN [ok |-> TRUE, val |-> 2 * IntVal(ip) + FracTicks(fp)]
        ELSE [ok |-> FALSE, val |-> 0]

\* float(text): an optional sign, then an unsigned numeral
float(s) ==
    IF Len(s) > 0 /\ s[1] \in {"-", "+"}
    THEN LET u == UnsignedFloat(Tail(s))
         IN  IF u.ok /\ s[1] = "-" THEN [ok |-> TRUE, val |-> 0 - u.val] ELSE u
    ELSE UnsignedFloat(s)

Prefix == <<"t", "r", "y", " ", "a", "g", "a", "i", "n", " ", "i", "n", " ">>

HasPrefixAt(msg, i) ==
    /\ i + Len(Prefix) - 1 <= Len(msg)
    /\ \A k \in 1..Len(Prefix) : Lower(msg[i + k - 1]) = Prefix[k]

\* the group ([0-9]*\.?[0-9]+) followed by "s", matched at position p of msg:
\* the set of end positions q such that msg[p..q] is the group and msg[q+1]
\* is "s" (or "S", the search ignores case)
GroupEnds(msg, p) ==
    {q \in p..(Len(msg) - 1) :
        /\ Lower(msg[q + 1]) = "s"
        /\ LET g == SubSeq(msg, p, q)
               d == DotAt(g)
           IN  \/ d = 0 /\ IsDigits(g)
               \/ /\ d > 0
                  /\ IsDigits(SubSeq(g, 1, d - 1))
                  /\ IsDigits(SubSeq(g, d + 1, Len(g)))
                  /\ Len(g) > d}

\* re.search(r"try again in ([0-9]*\.?[0-9]+)s", msg, re.IGNORECASE):
\* the group of the leftmost match, or <<>> when there is no match (the
\* group is never empty).  After the digits and the dot are consumed the
\* next character decides, so a position has at most one match.
re_search(msg) ==
    LET starts == {i \in 1..Len(msg) :
                      HasPrefixAt(msg, i) /\ GroupEnds(msg, i + Len(Prefix)) # {}}
    IN  IF starts = {} THEN <<>>
        ELSE LET i == CHOOSE x \in starts : \A y \in starts : x <= y
                 p == i + Len(Prefix)
                 q == CHOOSE x \in GroupEnds(msg, p) : \A y \in GroupEnds(msg, p) : y <= x
             IN  SubSeq(msg, p, q)


\* ---------------------------------------------------------- provider errors
\* An openai.OpenAIError as the handlers see it: its class, whether it has a
\* response, the response's "retry-after" and "Retry-After" headers (<<>> for
\* a missing header: headers.get gives None, falsy like "") and str(e).
MsgHalf == <<"t", "r", "y", " ", "a", "g", "a", "i", "n", " ", "i", "n", " ", "0", ".", "5", "s">>
MsgUpper == <<"T", "r", "y", " ", "A", "g", "a", "i", "n", " ", "I", "n", " ", "1", ".", "5", "s">>
MsgMillis == <<"t", "r", "y", " ", "a", "g", "a", "i", "n", " ", "i", "n", " ", "2", "0", "m", "s">>
MsgPlain == <<"4", "2", "9">>

Err(cls, resp, lower, title, msg) ==
    [cls |-> cls, has_response |-> resp, retry_after_lower |-> lower,
     retry_after_title |-> title, msg |-> msg]

NoError == Err("None", FALSE, <<>>, <<>>, <<>>)
BadRequest == Err("BadRequestError", TRUE, <<>>, <<>>, MsgPlain)
ConnError == Err("APIConnectionError", FALSE, <<>>, <<>>, MsgPlain)
OtherError == Err("APIError", FALSE, <<>>, <<>>, MsgPlain)
RateLimitMsg == Err("RateLimitError", TRUE, <<>>, <<>>, MsgHalf)
RateLimitHeader == Err("RateLimitError", TRUE, <<"1">>, <<>>, MsgHalf)
RateLimitNegative == Err("RateLimitError", TRUE, <<"-", "1">>, <<>>, MsgPlain)
RateLimitDate == Err("RateLimitError", TRUE, <<>>, <<"W", "e", "d">>, MsgUpper)
RateLimitMillis == Err("RateLimitError", FALSE, <<>>, <<>>, MsgMillis)
RateLimitZero == Err("RateLimitError", TRUE, <<>>, <<"0">>, MsgPlain)

RateLimits == {RateLimitMsg, RateLimitHeader, RateLimitNegative,
               RateLimitDate, RateLimitMillis, RateLimitZero}
ProviderErrors == {BadRequest, ConnError, OtherError} \cup RateLimits
\* one error of each class
ErrorClasses == {BadRequest, ConnError, OtherError, RateLimitMsg}

\* _extract_retry_after_seconds(e): [found |-> FALSE] is None
Found(v) == [found |-> TRUE, val |-> v]
NotFound == [found |-> FALSE, val |-> 0]

HeaderRetryAfter(e) ==
    IF ~e.has_response THEN <<>>
    ELSE IF e.retry_after_lower # <<>> THEN e.retry_after_lower
    ELSE e.retry_after_title

extract_retry_after_seconds(e) ==
    LET retry_after == HeaderRetryAfter(e)
        m == re_search(e.msg)
    IN  IF retry_after # <<>> /\ float(retry_after).ok
        THEN Found(float(retry_after).val)
        ELSE IF m # <<>> THEN Found(float(m).val)
        ELSE NotFound

\* the argument of time.sleep in the except clause of the main loop, for the
\* three retryable classes
RetrySleepArg(e) ==
    IF e.cls = "RateLimitError"
    THEN LET retry_after == extract_retry_after_seconds(e)
         IN  IF retry_after.found THEN retry_after.val ELSE DefaultRetryAfter
    ELSE IF e.cls = "APIConnectionError" THEN ConnectionWait
    ELSE UnknownWait


\* --------------------------------------------------- configs and responses
\* The request configuration: the two token-ceiling fields (None = the key
\* is missing, as in every config create_chatgpt_config builds).
Caps == {100, 2000}
Config(mt, mct) == [max_tokens |-> mt, max_completion_tokens |-> mct]
create_chatgpt_config(max_tokens) == Config(None, max_tokens)

Truthy(x) == x # None /\ x # 0
Or(x, y) == IF Truthy(x) THEN x ELSE y
Max(a, b) == IF a >= b THEN a ELSE b
Min(a, b) == IF a <= b THEN a ELSE b

\* What the executor reads of a response: n is the dispatch that produced it
\* (0 for ret = None), shape tells whether choices is empty and whether
\* choices[0].message exists, then message.content ("None", "" or text) and
\* the two usage details (None when missing).
Resp(n, shape, content, reasoning, accepted) ==
    [n |-> n, shape |-> shape, content |-> content,
     reasoning_tokens |-> reasoning, accepted_prediction_tokens |-> accepted]

NoResponse == Resp(0, "None", "None", None, None)
LowReasoning == 10

\* the responses the simulated provider can give to the n-th dispatch of a
\* call that submits cfg
Responses(n, cfg) ==
    LET ceiling == Or(cfg.max_tokens, cfg.max_completion_tokens)
    IN  { Resp(n, "ok", "text", 0, 0),
          Resp(n, "ok", "", ceiling, 0),
          Resp(n, "ok", "None", ceiling, None),
          Resp(n, "ok", "", LowReasoning, 0),
          Resp(n, "ok", "", 0, 0),
          Resp(n, "ok", "", ceiling, 1),
          Resp(n, "no_choices", "None", ceiling, 0),
          Resp(n, "no_message", "None", ceiling, 0) }

\* lines 113-118: the response has a first choice whose content is empty
\* (evaluating it raises when the first choice has no message)
InspectRaises(r) == r.shape = "no_message"
EmptyContent(r) == r.shape = "ok" /\ r.content \in {"None", ""}

\* lines 120-125
ShouldBump(r, cfg) ==
    /\ r # NoResponse
    /\ ~InspectRaises(r)
    /\ EmptyContent(r)
    /\ Truthy(Or(cfg.max_tokens, cfg.max_completion_tokens))
    /\ Truthy(r.reasoning_tokens)
    /\ r.accepted_prediction_tokens \in {0, None}

\* (variant) the ceiling is always raised by the minimum
BumpedFlat(cap) == cap + MinBump

\* line 127
Bumped(cap) == cap + Max(MinBump, cap \div 2)

\* lines 124-130
BumpConfig(cfg) ==
    LET cap == Or(cfg.max_tokens, cfg.max_completion_tokens)
    IN  Config(Bumped(cap), Bumped(cap))

\* (variant) the wait falls one tick short of the cooldown
CooldownWaitShort(since) == OPENAI_COOLDOWN_SEC - 1 - since

\* line 232
CooldownWait(since) == OPENAI_COOLDOWN_SEC - since


\* ------------------------------------------------------------------- state
VARIABLES
    lock,            \* _openai_ts_lock: the thread holding it, or NoLock
    since_last,      \* time.time() - _last_openai_request_ts, saturated
    since_dispatch,  \* time since the latest start of a provider call, saturated
    pc,              \* where each thread is in request_chatgpt_engine
    phase,           \* "main" (the while loop) or "bump" (lines 129-133)
    max_retries,     \* argument of the call
    config,          \* the config mapping (mutated in place by the bump)
    config0,         \* the config as the caller passed it
    retries,         \* local retries
    ret,             \* local ret
    first_ret,       \* ret when the while loop ended
    e,               \* the exception being handled, NoError if none
    raised,          \* the exception that reached the caller, "None" if none
    wait,            \* local wait of the gate
    sleep_arg,       \* argument of the time.sleep in progress
    remaining,       \* time the thread still has to sleep
    ndisp,           \* provider calls started by the call
    ngate,           \* gate passes completed by the call
    nsleep,          \* backoff sleeps started by the call
    nfail,           \* provider calls of the call that raised
    all_bad          \* every provider call of the call raised BadRequestError

VARIABLES
    a_pc,            \* where the caller is in request_anthropic_engine
    a_args,          \* max_retries, timeout, prompt_cache and whether the
                     \* client has beta.prompt_caching.messages
    a_config,        \* the config mapping
    a_config0,       \* the config as the caller passed it
    a_retries,       \* local retries
    a_ret,           \* local ret (0 = None, n = the response of dispatch n)
    a_elapsed,       \* time.time() - start_time, saturated
    a_remaining,     \* time the caller still has to sleep
    a_log,           \* the warnings logged so far (line 204 or 206)
    a_sleeps,        \* the arguments of the time.sleep calls so far
    a_calls,         \* the provider entry point of each dispatch so far
    a_raised         \* the exception that reached the caller, "None" if none

openaiVars == <<lock, since_last, since_dispatch, pc, phase, max_retries,
                config, config0, retries, ret, first_ret, e, raised, wait,
                sleep_arg, remaining, ndisp, ngate, nsleep, nfail, all_bad>>

anthropicVars == <<a_pc, a_args, a_config, a_config0, a_retries, a_ret,
                   a_elapsed, a_remaining, a_log, a_sleeps, a_calls, a_raised>>

VARIABLES
    b_chatgpt,       \* the latest call of create_chatgpt_config: its
                     \* arguments and the messages of the config it returned
    b_anthropic      \* the same for create_anthropic_config

builderVars == <<b_chatgpt, b_anthropic>>

VARIABLES
    f_pc,            \* the formatter's main: "idle", "loop" or "exit"
    f_args,          \* its arguments and the directory tree it was run on
    f_files,         \* json_files, in sorted order
    f_next,          \* index in f_files of the next file of the loop
    f_changed,       \* changed
    f_skipped,       \* skipped
    f_errors,        \* errors
    f_status         \* the value main returned (None before)

formatVars == <<f_pc, f_args, f_files, f_next, f_changed, f_skipped, f_errors,
                f_status>>

toolVars == <<builderVars, formatVars>>

vars == <<openaiVars, anthropicVars, toolVars>>

gateVars == <<lock, since_last, wait>>
histVars == <<ndisp, ngate, nsleep, nfail, all_bad>>

\* ------------------------------------------------------- anthropic inputs
MaxAnthropicRetries == 3
Timeouts == {1, 2}

\* The config of the Anthropic-style call, as far as the executor touches
\* it: the shape of messages ("blocks": messages[0]["content"] is a list of
\* mappings, as create_anthropic_config builds it from a string; "str": the
\* content of the first message of a caller-built list is a string;
\* "empty": the caller-built list is empty) and whether the first block
\* carries cache_control.
AnthropicConfig(shape, cc) == [messages |-> shape, cache_control |-> cc]
AnthropicConfigs == {AnthropicConfig(sh, FALSE) : sh \in {"blocks", "str", "empty"}}

AnthropicArgs(m, to, pcache, beta) ==
    [max_retries |-> m, timeout |-> to, prompt_cache |-> pcache,
     has_prompt_caching |-> beta]

InitAnthropic ==
    /\ a_pc = "idle"
    /\ a_args = AnthropicArgs(0, 1, FALSE, FALSE)
    /\ a_config = AnthropicConfig("blocks", FALSE)
    /\ a_config0 = AnthropicConfig("blocks", FALSE)
    /\ a_retries = 0
    /\ a_ret = 0
    /\ a_elapsed = 0
    /\ a_remaining = 0
    /\ a_log = <<>>
    /\ a_sleeps = <<>>
    /\ a_calls = <<>>
    /\ a_raised = "None"

\* --------------------------------------------------------- config builders
MaxListLen == 2
Prompts == {"p", "q"}
SystemMessages == {"You are a helpful assistant.", "s"}

\* A prompt is a string or a list of messages.
StrPrompt(text) == [is_list |-> FALSE, text |-> text, items |-> <<>>]
ListPrompt(items) == [is_list |-> TRUE, text |-> "", items |-> items]

\* An entry of a message sequence: {"role": role, "content": content}, or,
\* with blocks, {"role": role, "content": [{"type": "text", "text": content}]}
Entry(role, content) == [role |-> role, content |-> content, blocks |-> FALSE]
BlockEntry(role, text) == [role |-> role, content |-> text, blocks |-> TRUE]

CallerEntries ==
    {Entry("user", "p"), Entry("assistant", "a"), Entry("system", "s"),
     BlockEntry("user", "q")}

SeqsUpTo(S, n) == UNION {[1..k -> S] : k \in 0..n}

PromptInputs ==
    {StrPrompt(x) : x \in Prompts}
        \cup {ListPrompt(q) : q \in SeqsUpTo(CallerEntries, MaxListLen)}

\* lines 35-53: the "messages" of the config create_chatgpt_config returns
chatgpt_messages(message, system_message) ==
    IF message.is_list
    THEN <<Entry("system", system_message)>> \o message.items
    ELSE <<Entry("system", system_message), Entry("user", message.text)>>

\* lines 149-164: the "messages" of the config create_anthropic_config
\* returns; system_message is not used
anthropic_messages(message, system_message) ==
    IF message.is_list
    THEN message.items
    ELSE <<BlockEntry("user", message.text)>>

Built(message, system_message, messages) ==
    [called |-> TRUE, message |-> message, system_message |-> system_message,
     messages |-> messages]
NotBuilt == [called |-> FALSE, message |-> StrPrompt(""), system_message |-> "",
             messages |-> <<>>]

InitBuilders ==
    /\ b_chatgpt = NotBuilt
    /\ b_anthropic = NotBuilt

\* ------------------------------------------------------ the JSON formatter
\* (src/all_repo_structures/_format_json_files.py)
MaxEntries == 2
Ragged == 9        \* a layout that no indent width produces
Indents == {-1, 0, 2}
DirKinds == {"missing", "file", "dir"}

\* What an entry of the tree is: a directory, a file whose name does not end
\* in .json, or a .json file that cannot be read, is not JSON, or holds JSON
\* laid out with indent 2 or raggedly, on a path that can be written or not.
EntryKinds == {"directory", "text", "unreadable", "invalid", "tidy", "ragged",
               "locked_tidy", "locked_ragged"}
Entries == [kind : EntryKinds, nested : BOOLEAN]
Trees == SeqsUpTo(Entries, MaxEntries)

MatchesGlob(f) == f.kind # "text"
IsFile(f) == f.kind # "directory"
Readable(f) == f.kind # "unreadable"
IsJSON(f) == f.kind \notin {"unreadable", "invalid"}
Layout(f) == IF f.kind \in {"tidy", "locked_tidy"} THEN 2 ELSE Ragged
Writable(f) == f.kind \notin {"locked_tidy", "locked_ragged"}

Matched(f, recursive) ==
    MatchesGlob(f) /\ IsFile(f) /\ (recursive \/ ~f.nested)

\* lines 27-38
RECURSIVE find_json_files(_, _)
find_json_files(tree, recursive) ==
    IF tree = <<>> THEN <<>>
    ELSE (IF Matched(Head(tree), recursive) THEN <<Head(tree)>> ELSE <<>>)
            \o find_json_files(Tail(tree), recursive)

FormatResult(changed, err) == [changed |-> changed, err |-> err]

\* lines 41-81: (changed, error); json.dumps with the indent gives the layout
\* of that indent
format_json_file(f, indent) ==
    IF ~Readable(f) THEN FormatResult(FALSE, "Failed to read")
    ELSE IF ~IsJSON(f) THEN FormatResult(FALSE, "Invalid JSON")
    ELSE IF indent = Layout(f) THEN FormatResult(FALSE, "")
    ELSE IF Writable(f) THEN FormatResult(TRUE, "")
    ELSE FormatResult(FALSE, "Failed to write")

\* (variant) failures do not show in the exit status
ExitStatusZero(errors) == 0

\* line 150
ExitStatus(errors) == IF errors = 0 THEN 0 ELSE 1

InitFormat ==
    /\ f_pc = "idle"
    /\ f_args = [dir |-> "dir", indent |-> 2, recursive |-> FALSE, tree |-> <<>>]
    /\ f_files = <<>>
    /\ f_next = 1
    /\ f_changed = 0
    /\ f_skipped = 0
    /\ f_errors = 0
    /\ f_status = None

Init ==
    /\ InitFormat
    /\ InitBuilders
    /\ InitAnthropic
    /\ lock = NoLock
    /\ since_last = OPENAI_COOLDOWN_SEC
    /\ since_dispatch = OPENAI_COOLDOWN_SEC
    /\ pc = [t \in Threads |-> "idle"]
    /\ phase = [t \in Threads |-> "main"]
    /\ max_retries = [t \in Threads |-> 0]
    /\ config = [t \in Threads |-> create_chatgpt_config(100)]
    /\ config0 = [t \in Threads |-> create_chatgpt_config(100)]
    /\ retries = [t \in Threads |-> 0]
    /\ ret = [t \in Threads |-> NoResponse]
    /\ first_ret = [t \in Threads |-> NoResponse]
    /\ e = [t \in Threads |-> NoError]
    /\ raised = [t \in Threads |-> "None"]
    /\ wait = [t \in Threads |-> 0]
    /\ sleep_arg = [t \in Threads |-> 0]
    /\ remaining = [t \in Threads |-> 0]
    /\ ndisp = [t \in Threads |-> 0]
    /\ ngate = [t \in Threads |-> 0]
    /\ nsleep = [t \in Threads |-> 0]
    /\ nfail = [t \in Threads |-> 0]
    /\ all_bad = [t \in Threads |-> TRUE]

\* ------------------------------------------------- request_chatgpt_engine
\* Lines 110-137, reached when the while condition is false: inspect the
\* response and either return it or raise the ceiling and go through the
\* gate once more.  r is the value of ret, cfg the config.
AfterLoop(t, r, cfg) ==
    /\ first_ret' = [first_ret EXCEPT ![t] = r]
    /\ IF ShouldBump(r, cfg)
       THEN /\ config' = [config EXCEPT ![t] = BumpConfig(cfg)]
            /\ phase' = [phase EXCEPT ![t] = "bump"]
            /\ pc' = [pc EXCEPT ![t] = "gate"]
       ELSE /\ config' = config
            /\ phase' = phase
            /\ pc' = [pc EXCEPT ![t] = "done"]

\* (variant) the next attempt dispatches without passing the gate
LoopTestNoGate(t, r, n) ==
    IF r = NoResponse /\ n < max_retries'[t]
    THEN /\ pc' = [pc EXCEPT ![t] = "dispatch"]
         /\ UNCHANGED <<config, phase, first_ret>>
    ELSE AfterLoop(t, r, config[t])

\* Line 70: the while condition, evaluated with ret = r and retries = n.
LoopTest(t, r, n) ==
    IF r = NoResponse /\ n < max_retries'[t]
    THEN /\ pc' = [pc EXCEPT ![t] = "gate"]
         /\ UNCHANGED <<config, phase, first_ret>>
    ELSE AfterLoop(t, r, config[t])

RECURSIVE SumTo(_, _)
SumTo(f, n) == IF n = 0 THEN 0 ELSE f[n] + SumTo(f, n - 1)

\* the while-condition evaluations the calls made so far may need
LoopTests == SumTo([t \in Threads |-> IF pc[t] = "idle" THEN 0 ELSE max_retries[t] + 1],
                   NumThreads)

\* Lines 64-70: the call, with its arguments (any max_retries the budget of
\* loop tests still allows).
Call(t) ==
    /\ pc[t] = "idle"
    \* the threads are numbered in the order of their calls
    /\ \A u \in Threads : u < t => pc[u] # "idle"
    /\ \E m \in 0..(MaxLoopTests - LoopTests - 1), c \in Caps :
          /\ max_retries' = [max_retries EXCEPT ![t] = m]
          /\ config0' = [config0 EXCEPT ![t] = create_chatgpt_config(c)]
          /\ config' = [config EXCEPT ![t] = create_chatgpt_config(c)]
          /\ first_ret' = first_ret
          /\ phase' = phase
          /\ pc' = [pc EXCEPT ![t] = IF 0 < m THEN "gate" ELSE "done"]
    /\ UNCHANGED <<gateVars, since_dispatch, retries, ret, e, raised,
                   sleep_arg, remaining, histVars>>
    /\ UNCHANGED <<anthropicVars, toolVars>>

\* Lines 230-239: take the lock, read the clock, compute wait and start the
\* sleep if wait > 0.
GateEnter(t) ==
    /\ pc[t] = "gate"
    /\ lock = NoLock
    /\ lock' = t
    /\ wait' = [wait EXCEPT ![t] = CooldownWait(since_last)]
    /\ IF CooldownWait(since_last) > 0
       THEN /\ pc' = [pc EXCEPT ![t] = "gate_sleep"]
            /\ sleep_arg' = [sleep_arg EXCEPT ![t] = CooldownWait(since_last)]
            /\ remaining' = [remaining EXCEPT ![t] = CooldownWait(since_last)]
       ELSE /\ pc' = [pc EXCEPT ![t] = "gate_mark"]
            /\ UNCHANGED <<sleep_arg, remaining>>
    /\ UNCHANGED <<since_last, since_dispatch, phase, max_retries, config,
                   config0, retries, ret, first_ret, e, raised, histVars>>
    /\ UNCHANGED <<anthropicVars, toolVars>>

\* (variant) the lock is kept after the time is recorded
GateMarkHolding(t) ==
    /\ \/ pc[t] = "gate_mark"
       \/ pc[t] = "gate_sleep" /\ remaining[t] = 0
    /\ lock = t
    /\ since_last' = 0
    /\ lock' = lock
    /\ wait' = [wait EXCEPT ![t] = 0]
    /\ sleep_arg' = [sleep_arg EXCEPT ![t] = 0]
    /\ ngate' = [ngate EXCEPT ![t] = @ + 1]
    /\ pc' = [pc EXCEPT ![t] = "dispatch"]
    /\ UNCHANGED <<since_dispatch, phase, max_retries, config, config0,
                   retries, ret, first_ret, e, raised, remaining, ndisp,
                   nsleep, nfail, all_bad>>
    /\ UNCHANGED <<anthropicVars, toolVars>>

\* (variant) the lock is kept when the gate had to sleep
GateMarkHoldingAfterSleep(t) ==
    /\ \/ pc[t] = "gate_mark"
       \/ pc[t] = "gate_sleep" /\ remaining[t] = 0
    /\ lock = t
    /\ since_last' = 0
    /\ lock' = IF pc[t] = "gate_sleep" THEN lock ELSE NoLock
    /\ wait' = [wait EXCEPT ![t] = 0]
    /\ sleep_arg' = [sleep_arg EXCEPT ![t] = 0]
    /\ ngate' = [ngate EXCEPT ![t] = @ + 1]
    /\ pc' = [pc EXCEPT ![t] = "dispatch"]
    /\ UNCHANGED <<since_dispatch, phase, max_retries, config, config0,
                   retries, ret, first_ret, e, raised, remaining, ndisp,
                   nsleep, nfail, all_bad>>
    /\ UNCHANGED <<anthropicVars, toolVars>>

\* Line 241 and the end of the with block: once the sleep (if any) is over,
\* record the time and release the lock.
GateMark(t) ==
    /\ \/ pc[t] = "gate_mark"
       \/ pc[t] = "gate_sleep" /\ remaining[t] = 0
    /\ lock = t
    /\ since_last' = 0
    /\ lock' = NoLock
    /\ wait' = [wait EXCEPT ![t] = 0]
    /\ sleep_arg' = [sleep_arg EXCEPT ![t] = 0]
    /\ ngate' = [ngate EXCEPT ![t] = @ + 1]
    /\ pc' = [pc EXCEPT ![t] = "dispatch"]
    /\ UNCHANGED <<since_dispatch, phase, max_retries, config, config0,
                   retries, ret, first_ret, e, raised, remaining, ndisp,
                   nsleep, nfail, all_bad>>
    /\ UNCHANGED <<anthropicVars, toolVars>>

\* Lines 77 and 132: client.chat.completions.create(**config) starts.
DispatchStart(t) ==
    /\ pc[t] = "dispatch"
    /\ pc' = [pc EXCEPT ![t] = "in_call"]
    /\ since_dispatch' = 0
    /\ ndisp' = [ndisp EXCEPT ![t] = @ + 1]
    /\ UNCHANGED <<gateVars, phase, max_retries, config, config0, retries,
                   ret, first_ret, e, raised, sleep_arg, remaining, ngate,
                   nsleep, nfail, all_bad>>
    /\ UNCHANGED <<anthropicVars, toolVars>>


\* Line 77 returns a response r in the while loop; line 108; the loop ends.
Succeed(t) ==
    /\ pc[t] = "in_call"
    /\ phase[t] = "main"
    /\ \E r \in Responses(ndisp[t], config[t]) :
          /\ ret' = [ret EXCEPT ![t] = r]
          /\ AfterLoop(t, r, config[t])
    /\ retries' = [retries EXCEPT ![t] = @ + 1]
    /\ all_bad' = [all_bad EXCEPT ![t] = FALSE]
    /\ UNCHANGED <<gateVars, since_dispatch, max_retries, config0, e, raised,
                   sleep_arg, remaining, ndisp, ngate, nsleep, nfail>>
    /\ UNCHANGED <<anthropicVars, toolVars>>

\* (variant) BadRequestError is handled like the unclassified errors
HandleErrorRetryAll(t, err) ==
    /\ e' = [e EXCEPT ![t] = err]
    /\ sleep_arg' = [sleep_arg EXCEPT ![t] = Max(RetrySleepArg(err), 0)]
    /\ raised' = raised
    /\ pc' = [pc EXCEPT ![t] = "backoff"]
    /\ remaining' = [remaining EXCEPT ![t] = Max(RetrySleepArg(err), 0)]
    /\ nsleep' = [nsleep EXCEPT ![t] = @ + 1]

\* Lines 79-106: the except clause for the error err raised by line 77.
\* BadRequestError raises to the caller; the other classes call time.sleep,
\* which raises ValueError for a negative argument.
HandleError(t, err) ==
    /\ e' = [e EXCEPT ![t] = err]
    /\ IF err.cls = "BadRequestError"
       THEN /\ raised' = [raised EXCEPT ![t] = "Invalid API Request"]
            /\ pc' = [pc EXCEPT ![t] = "raised"]
            /\ UNCHANGED <<sleep_arg, remaining, nsleep>>
       ELSE /\ sleep_arg' = [sleep_arg EXCEPT ![t] = RetrySleepArg(err)]
            /\ IF RetrySleepArg(err) < 0
               THEN /\ raised' = [raised EXCEPT ![t] = "ValueError"]
                    /\ pc' = [pc EXCEPT ![t] = "raised"]
                    /\ UNCHANGED <<remaining, nsleep>>
               ELSE /\ raised' = raised
                    /\ pc' = [pc EXCEPT ![t] = "backoff"]
                    /\ remaining' = [remaining EXCEPT ![t] = RetrySleepArg(err)]
                    /\ nsleep' = [nsleep EXCEPT ![t] = @ + 1]

\* Line 77 raises in the while loop.
Fail(t) ==
    /\ pc[t] = "in_call"
    /\ phase[t] = "main"
    /\ \E err \in ProviderErrors :
          /\ HandleError(t, err)
          /\ all_bad' = [all_bad EXCEPT ![t] = @ /\ err.cls = "BadRequestError"]
    /\ nfail' = [nfail EXCEPT ![t] = @ + 1]
    /\ UNCHANGED <<gateVars, since_dispatch, phase, max_retries, config,
                   config0, retries, ret, first_ret, ndisp, ngate>>
    /\ UNCHANGED <<anthropicVars, toolVars>>

\* The backoff sleep is over: line 108, then the while condition.
BackoffWake(t) ==
    /\ pc[t] = "backoff"
    /\ remaining[t] = 0
    /\ retries' = [retries EXCEPT ![t] = @ + 1]
    /\ e' = [e EXCEPT ![t] = NoError]
    /\ sleep_arg' = [sleep_arg EXCEPT ![t] = 0]
    /\ max_retries' = max_retries
    /\ LoopTest(t, ret[t], retries[t] + 1)
    /\ UNCHANGED <<gateVars, since_dispatch, config0, ret, raised, remaining,
                   histVars>>
    /\ UNCHANGED <<anthropicVars, toolVars>>

\* Line 132 returns a response: it becomes ret and is returned.
BumpSucceed(t) ==
    /\ pc[t] = "in_call"
    /\ phase[t] = "bump"
    /\ \E r \in Responses(ndisp[t], config[t]) : ret' = [ret EXCEPT ![t] = r]
    /\ pc' = [pc EXCEPT ![t] = "done"]
    /\ UNCHANGED <<gateVars, since_dispatch, phase, max_retries, config,
                   config0, retries, first_ret, e, raised, sleep_arg,
                   remaining, ndisp, ngate, nsleep, nfail, all_bad>>
    /\ UNCHANGED <<anthropicVars, toolVars>>

\* (variant) a BadRequestError of line 132 is raised to the caller
BumpFailFatal(t) ==
    /\ pc[t] = "in_call"
    /\ phase[t] = "bump"
    /\ \E err \in ProviderErrors :
          /\ e' = [e EXCEPT ![t] = err]
          /\ IF err.cls = "BadRequestError"
             THEN /\ raised' = [raised EXCEPT ![t] = "Invalid API Request"]
                  /\ pc' = [pc EXCEPT ![t] = "raised"]
             ELSE /\ raised' = raised
                  /\ pc' = [pc EXCEPT ![t] = "done"]
    /\ nfail' = [nfail EXCEPT ![t] = @ + 1]
    /\ UNCHANGED <<gateVars, since_dispatch, phase, max_retries, config,
                   config0, retries, ret, first_ret, sleep_arg,
                   remaining, ndisp, ngate, nsleep, all_bad>>
    /\ UNCHANGED <<anthropicVars, toolVars>>

\* Line 132 raises: lines 134-136 swallow the exception, ret is returned.
BumpFail(t) ==
    /\ pc[t] = "in_call"
    /\ phase[t] = "bump"
    /\ \E err \in ErrorClasses : e' = [e EXCEPT ![t] = err]
    /\ pc' = [pc EXCEPT ![t] = "done"]
    /\ nfail' = [nfail EXCEPT ![t] = @ + 1]
    /\ UNCHANGED <<gateVars, since_dispatch, phase, max_retries, config,
                   config0, retries, ret, first_ret, raised, sleep_arg,
                   remaining, ndisp, ngate, nsleep, all_bad>>
    /\ UNCHANGED <<anthropicVars, toolVars>>

\* ----------------------------------------------- request_anthropic_engine
AnthropicErrors == {"APIStatusError", "BadRequestError"}

\* Lines 172-180: the call, with its arguments.
AnthropicCall ==
    /\ a_pc = "idle"
    /\ \E m \in 0..MaxAnthropicRetries, to \in Timeouts, pcache \in BOOLEAN,
          beta \in BOOLEAN, cfg \in AnthropicConfigs :
          /\ a_args' = AnthropicArgs(m, to, pcache, beta)
          /\ a_config' = cfg
          /\ a_config0' = cfg
          /\ a_pc' = IF 0 < m THEN "attempt" ELSE "done"
    /\ UNCHANGED <<a_retries, a_ret, a_elapsed, a_remaining, a_log, a_sleeps,
                   a_calls, a_raised>>
    /\ UNCHANGED <<openaiVars, toolVars>>

\* (variant) the backoff counts from one
AnthropicSleepArgFromOne(n) == AnthropicBackoffStep * (n + 1)

\* line 207
AnthropicSleepArg(n) == AnthropicBackoffStep * n

\* (variant) a BadRequestError is raised to the caller
AnthropicExceptFatal(cls, elapsed) ==
    IF cls = "BadRequestError"
    THEN /\ a_raised' = cls
         /\ a_pc' = "raised"
         /\ UNCHANGED <<a_log, a_sleeps, a_remaining>>
    ELSE /\ a_log' = Append(a_log,
                            [cls |-> cls,
                             msg |-> IF elapsed >= a_args.timeout
                                     THEN "Request timed out. Retrying..."
                                     ELSE "Retrying after an unknown error..."])
         /\ a_sleeps' = Append(a_sleeps, AnthropicBackoffStep * a_retries)
         /\ a_remaining' = AnthropicBackoffStep * a_retries
         /\ a_pc' = "sleep"
         /\ a_raised' = a_raised

\* (variant) an attempt that took the timeout or longer ends the loop
AnthropicExceptAbort(cls, elapsed) ==
    /\ a_log' = Append(a_log,
                       [cls |-> cls,
                        msg |-> IF elapsed >= a_args.timeout
                                THEN "Request timed out. Retrying..."
                                ELSE "Retrying after an unknown error..."])
    /\ IF elapsed >= a_args.timeout
       THEN /\ a_pc' = "done"
            /\ UNCHANGED <<a_sleeps, a_remaining>>
       ELSE /\ a_sleeps' = Append(a_sleeps, AnthropicSleepArg(a_retries))
            /\ a_remaining' = AnthropicSleepArg(a_retries)
            /\ a_pc' = "sleep"
    /\ a_raised' = a_raised

\* Lines 200-207: the except clause, for an exception of class cls raised
\* when time.time() - start_time was elapsed.
AnthropicExcept(cls, elapsed) ==
    /\ a_log' = Append(a_log,
                       [cls |-> cls,
                        msg |-> IF elapsed >= a_args.timeout
                                THEN "Request timed out. Retrying..."
                                ELSE "Retrying after an unknown error..."])
    /\ a_sleeps' = Append(a_sleeps, AnthropicSleepArg(a_retries))
    /\ a_remaining' = AnthropicSleepArg(a_retries)
    /\ a_pc' = "sleep"
    /\ a_raised' = a_raised

\* (variant) the annotation replaces the messages
AnnotatedAlone(cfg) == AnthropicConfig("empty", TRUE)

\* line 187: the caller's config, with cache_control set on the first block
\* of its first message
Annotated(cfg) == AnthropicConfig(cfg.messages, TRUE)

\* Lines 182-199 up to the provider call: take start_time, annotate the
\* first block when prompt_cache is set (which raises when there is no
\* first block to annotate) and start the call on the entry point chosen.
AnthropicAttempt ==
    /\ a_pc = "attempt"
    /\ IF a_args.prompt_cache /\ a_config.messages # "blocks"
       THEN /\ AnthropicExcept(IF a_config.messages = "str"
                               THEN "TypeError" ELSE "IndexError", 0)
            /\ a_elapsed' = 0
            /\ UNCHANGED <<a_config, a_calls>>
       ELSE /\ a_config' = IF a_args.prompt_cache
                           THEN Annotated(a_config)
                           ELSE a_config
            /\ a_calls' = Append(a_calls,
                                 IF a_args.prompt_cache /\ a_args.has_prompt_caching
                                 THEN "beta.prompt_caching.messages.create"
                                 ELSE "messages.create")
            /\ a_elapsed' = 0
            /\ a_pc' = "in_call"
            /\ UNCHANGED <<a_log, a_sleeps, a_remaining, a_raised>>
    /\ UNCHANGED <<a_args, a_config0, a_retries, a_ret>>
    /\ UNCHANGED <<openaiVars, toolVars>>

\* The provider call returns: line 208, the loop ends, line 210.
AnthropicSucceed ==
    /\ a_pc = "in_call"
    /\ a_ret' = Len(a_calls)
    /\ a_retries' = a_retries + 1
    /\ a_pc' = "done"
    /\ UNCHANGED <<a_args, a_config, a_config0, a_elapsed, a_remaining, a_log,
                   a_sleeps, a_calls, a_raised>>
    /\ UNCHANGED <<openaiVars, toolVars>>

\* The provider call raises.
AnthropicFail ==
    /\ a_pc = "in_call"
    /\ \E cls \in AnthropicErrors : AnthropicExcept(cls, a_elapsed)
    /\ UNCHANGED <<a_args, a_config, a_config0, a_retries, a_ret, a_elapsed,
                   a_calls>>
    /\ UNCHANGED <<openaiVars, toolVars>>

\* The sleep is over: line 208, then the while condition.
AnthropicWake ==
    /\ a_pc = "sleep"
    /\ a_remaining = 0
    /\ a_retries' = a_retries + 1
    /\ a_pc' = IF a_retries + 1 < a_args.max_retries THEN "attempt" ELSE "done"
    /\ UNCHANGED <<a_args, a_config, a_config0, a_ret, a_elapsed, a_remaining,
                   a_log, a_sleeps, a_calls, a_raised>>
    /\ UNCHANGED <<openaiVars, toolVars>>

\* Half a second passes for the Anthropic-style caller.
AnthropicTick ==
    /\ a_pc \in {"in_call", "sleep"}
    /\ a_elapsed' = Min(a_elapsed + 1, a_args.timeout)
    /\ a_remaining' = Max(a_remaining - 1, 0)
    /\ UNCHANGED <<a_pc, a_args, a_config, a_config0, a_retries, a_ret, a_log,
                   a_sleeps, a_calls, a_raised>>
    /\ UNCHANGED <<openaiVars, toolVars>>

NextAnthropic ==
    \/ AnthropicCall
    \/ AnthropicAttempt
    \/ AnthropicSucceed
    \/ AnthropicFail
    \/ AnthropicWake
    \/ AnthropicTick

SpecAnthropic == Init /\ [][NextAnthropic]_vars

\* ------------------------------------------------- the builders, called
\* Lines 26-56.
CreateChatGPTConfig ==
    /\ \E message \in PromptInputs, system_message \in SystemMessages :
          b_chatgpt' = Built(message, system_message,
                             chatgpt_messages(message, system_message))
    /\ UNCHANGED <<b_anthropic, formatVars, openaiVars, anthropicVars>>

\* Lines 140-169.
CreateAnthropicConfig ==
    /\ \E message \in PromptInputs, system_message \in SystemMessages :
          b_anthropic' = Built(message, system_message,
                               anthropic_messages(message, system_message))
    /\ UNCHANGED <<b_chatgpt, formatVars, openaiVars, anthropicVars>>

NextBuilders ==
    \/ CreateChatGPTConfig
    \/ CreateAnthropicConfig

SpecBuilders == Init /\ [][NextBuilders]_vars

\* ------------------------------------------------ the formatter, running
\* Lines 111-132: main is called; the arguments are checked and the files
\* are listed.
FormatMain ==
    /\ f_pc = "idle"
    /\ \E dir \in DirKinds, indent \in Indents, recursive \in BOOLEAN,
          tree \in Trees :
          /\ f_args' = [dir |-> dir, indent |-> indent,
                        recursive |-> recursive, tree |-> tree]
          /\ IF dir # "dir" \/ indent < 0
             THEN /\ f_status' = 2
                  /\ f_pc' = "exit"
                  /\ f_files' = f_files
             ELSE /\ f_files' = find_json_files(tree, recursive)
                  /\ IF f_files' = <<>>
                     THEN f_status' = 0 /\ f_pc' = "exit"
                     ELSE f_status' = f_status /\ f_pc' = "loop"
    /\ UNCHANGED <<f_next, f_changed, f_skipped, f_errors>>
    /\ UNCHANGED <<builderVars, openaiVars, anthropicVars>>

\* Lines 134-144: one file of the loop.
FormatLoop ==
    /\ f_pc = "loop"
    /\ f_next <= Len(f_files)
    /\ LET r == format_json_file(f_files[f_next], f_args.indent)
       IN /\ f_errors' = IF r.err # "" THEN f_errors + 1 ELSE f_errors
          /\ f_changed' = IF r.err = "" /\ r.changed THEN f_changed + 1
                          ELSE f_changed
          /\ f_skipped' = IF r.err = "" /\ ~r.changed THEN f_skipped + 1
                          ELSE f_skipped
    /\ f_next' = f_next + 1
    /\ UNCHANGED <<f_pc, f_args, f_files, f_status>>
    /\ UNCHANGED <<builderVars, openaiVars, anthropicVars>>

\* Lines 147-150: the summary and the exit status.
FormatDone ==
    /\ f_pc = "loop"
    /\ f_next > Len(f_files)
    /\ f_status' = ExitStatus(f_errors)
    /\ f_pc' = "exit"
    /\ UNCHANGED <<f_args, f_files, f_next, f_changed, f_skipped, f_errors>>
    /\ UNCHANGED <<builderVars, openaiVars, anthropicVars>>

NextFormat ==
    \/ FormatMain
    \/ FormatLoop
    \/ FormatDone

SpecFormat == Init /\ [][NextFormat]_vars

\* Half a second passes.
Tick ==
    /\ since_last' = Min(since_last + 1, OPENAI_COOLDOWN_SEC)
    /\ since_dispatch' = Min(since_dispatch + 1, OPENAI_COOLDOWN_SEC)
    /\ remaining' = [t \in Threads |-> Max(remaining[t] - 1, 0)]
    /\ UNCHANGED <<lock, wait, pc, phase, max_retries, config, config0,
                   retries, ret, first_ret, e, raised, sleep_arg, histVars>>
    /\ UNCHANGED <<anthropicVars, toolVars>>

Next ==
    \/ \E t \in Threads : Call(t)
    \/ \E t \in Threads : GateEnter(t)
    \/ \E t \in Threads : GateMark(t)
    \/ \E t \in Threads : DispatchStart(t)
    \/ \E t \in Threads : Succeed(t)
    \/ \E t \in Threads : Fail(t)
    \/ \E t \in Threads : BackoffWake(t)
    \/ \E t \in Threads : BumpSucceed(t)
    \/ \E t \in Threads : BumpFail(t)
    \/ Tick

Spec == Init /\ [][Next]_vars

\* The steps of thread t inside a call of request_chatgpt_engine.
ThreadStep(t) ==
    \/ GateEnter(t)
    \/ GateMark(t)
    \/ DispatchStart(t)
    \/ Succeed(t)
    \/ Fail(t)
    \/ BackoffWake(t)
    \/ BumpSucceed(t)
    \/ BumpFail(t)

\* Fair scheduling: time passes, and a thread that can take a step (the
\* lock is free when it waits for it, its sleep is over, its provider call
\* has an outcome) eventually takes one.
SpecFair ==
    /\ Init
    /\ [][Next]_vars
    /\ WF_vars(Tick)
    /\ \A t \in Threads : WF_vars(ThreadStep(t))

\* A process that uses one executor or the other.
NextEither ==
    \/ a_pc = "idle" /\ Next
    \/ (\A t \in Threads : pc[t] = "idle") /\ NextAnthropic

SpecEither == Init /\ [][NextEither]_vars


\* ------------------------------------------------------------------ claims
Terminated(t) == pc[t] \in {"done", "raised"}
Retryable == {"RateLimitError", "APIConnectionError", "APIError"}

RECURSIVE SeqSum(_)
SeqSum(q) == IF Len(q) = 0 THEN 0 ELSE Head(q) + SeqSum(Tail(q))

\* C1: whenever a gate call writes the last-request timestamp, at least the
\* cooldown has passed since the previous write (the value written differs
\* from the previous one by at least OPENAI_COOLDOWN_SEC), for every
\* interleaving of the threads.
C1_GateSpacing ==
    [][\A t \in Threads :
          ngate'[t] = ngate[t] + 1 => since_last >= OPENAI_COOLDOWN_SEC]_vars

\* a thread has just written the timestamp after another thread's gate pass
C1_Witness ==
    \E t, u \in Threads :
        /\ t # u
        /\ pc[t] = "dispatch" /\ since_last = 0
        /\ ngate[t] >= 1 /\ ngate[u] >= 1

\* C2: whenever a provider call starts, at least the cooldown has passed
\* since the start of the previous provider call of any thread.
C2_DispatchSpacing ==
    [][\A t \in Threads :
          (pc[t] = "dispatch" /\ pc'[t] = "in_call")
              => since_dispatch >= OPENAI_COOLDOWN_SEC]_vars

\* C3: a BadRequestError in the while loop raises to the caller at once; a
\* call that has raised makes no further dispatch, sleep or gate pass; and
\* a call whose dispatches all raised BadRequestError made exactly one.
C3_BadRequestFatal ==
    /\ [](\A t \in Threads :
            /\ (phase[t] = "main" /\ e[t].cls = "BadRequestError")
                  => (pc[t] = "raised" /\ raised[t] = "Invalid API Request")
            /\ (all_bad[t] /\ nfail[t] >= 1)
                  => (ndisp[t] = 1 /\ nsleep[t] = 0 /\ ngate[t] = 1
                        /\ retries[t] = 0 /\ pc[t] = "raised"))
    /\ [][\A t \in Threads :
            pc[t] = "raised"
                => /\ pc'[t] = "raised"
                   /\ ndisp'[t] = ndisp[t]
                   /\ nsleep'[t] = nsleep[t]
                   /\ ngate'[t] = ngate[t]
                   /\ remaining'[t] = remaining[t]]_vars

\* the call raised on its first dispatch with retry budget left
C3_Witness ==
    \E t \in Threads :
        /\ pc[t] = "raised" /\ raised[t] = "Invalid API Request"
        /\ max_retries[t] = 2 /\ retries[t] = 0 /\ ndisp[t] = 1

\* the wait the claim C4 gives for each error of the model, in ticks
ClaimedWait(err) ==
    CASE err = RateLimitHeader -> 2
      [] err = RateLimitNegative -> 0 - 2
      [] err = RateLimitZero -> 0
      [] err = RateLimitMsg -> 1
      [] err = RateLimitDate -> 3
      [] err = RateLimitMillis -> 4
      [] err = ConnError -> 10
      [] err = OtherError -> 2

\* C4: after a retryable error in the while loop the call sleeps the wait
\* of the error's class (rate limit: the numeric retry-after header, else
\* the N of "try again in Ns", else 2.0; connectivity: 5.0; other: 1.0).
C4_BackoffDuration ==
    \A t \in Threads :
        (phase[t] = "main" /\ e[t].cls \in Retryable)
            => /\ pc[t] = "backoff"
               /\ sleep_arg[t] = ClaimedWait(e[t])

\* C5: a call that bumps has the ceiling fields set to old + max(512, old
\* div 2), makes exactly one dispatch more than its while loop made, and
\* returns the response of that dispatch when it gives one; no call makes
\* more than max_retries + 1 dispatches.
C5_OneShotBump ==
    \A t \in Threads :
        /\ ndisp[t] <= max_retries[t] + 1
        /\ phase[t] = "bump" =>
             LET old == config0[t].max_completion_tokens
                 inc == IF old \div 2 > 512 THEN old \div 2 ELSE 512
             IN  /\ config[t].max_tokens = old + inc
                 /\ config[t].max_completion_tokens = old + inc
                 /\ old = 100 => config[t].max_completion_tokens = 612
                 /\ old = 2000 => config[t].max_completion_tokens = 3000
                 /\ ndisp[t] <= retries[t] + 1
                 /\ pc[t] = "done" => ndisp[t] = retries[t] + 1
                 /\ (pc[t] = "done" /\ e[t] = NoError) => ret[t].n = ndisp[t]

\* the bumped dispatch of a call with max_retries = 2 that had one failure
\* returned an empty response again, and the call returned it
C5_Witness ==
    \E t \in Threads :
        /\ pc[t] = "done" /\ phase[t] = "bump"
        /\ ndisp[t] = 3 /\ max_retries[t] = 2
        /\ ret[t].n = 3 /\ ret[t].content = ""
        /\ config[t].max_completion_tokens = 3000

\* C6: the while loop makes at most max_retries dispatches and stops at the
\* first response; a call that ended without a response and without a
\* BadRequestError returned None after max_retries dispatches and raised
\* nothing.
C6_RetryBudget ==
    \A t \in Threads :
        /\ phase[t] = "main" => ndisp[t] <= max_retries[t]
        /\ (phase[t] = "main" /\ ret[t] # NoResponse)
              => (pc[t] = "done" /\ ret[t].n = ndisp[t])
        /\ (Terminated(t) /\ ret[t] = NoResponse /\ e[t].cls # "BadRequestError")
              => /\ pc[t] = "done"
                 /\ raised[t] = "None"
                 /\ ndisp[t] = max_retries[t]

\* C7: when the inspection or the bumped dispatch fails, nothing is raised
\* and the call returns the response its while loop obtained.
C7_SilentDegradation ==
    \A t \in Threads :
        /\ phase[t] = "bump" => (pc[t] # "raised" /\ raised[t] = "None")
        /\ (pc[t] = "done" /\ phase[t] = "bump" /\ e[t] # NoError)
              => (ret[t] = first_ret[t] /\ ret[t].n = retries[t])
        /\ (Terminated(t) /\ ret[t].shape = "no_message" /\ phase[t] = "main")
              => (pc[t] = "done" /\ raised[t] = "None" /\ ret[t] = first_ret[t])

\* the bumped dispatch raised BadRequestError and the call returned the
\* empty response of the while loop
C7_Witness ==
    \E t \in Threads :
        /\ pc[t] = "done" /\ phase[t] = "bump"
        /\ e[t].cls = "BadRequestError"
        /\ ret[t] = first_ret[t] /\ ret[t].content = ""

\* C8: a call ends by raising only when the provider raised a
\* BadRequestError.
C8_OnlyFatalSurfaces ==
    \A t \in Threads :
        (pc[t] = "raised" \/ raised[t] # "None") => e[t].cls = "BadRequestError"

\* C9: the i-th sleep of request_anthropic_engine lasts 10 s times i - 1,
\* one sleep per failed attempt; failures on attempts 1 and 2 and a success
\* on attempt 3 give a total sleep of 10 s, three dispatches and the third
\* response.
C9_LinearBackoff ==
    /\ Len(a_sleeps) = Len(a_log)
    /\ \A i \in 1..Len(a_sleeps) : a_sleeps[i] = 20 * (i - 1)
    /\ (a_pc = "done" /\ a_ret # 0 /\ Len(a_log) = 2 /\ Len(a_calls) = 3)
          => (SeqSum(a_sleeps) = 20 /\ a_ret = 3)

\* the provider raised twice and then answered
C9_Witness ==
    /\ a_pc = "done" /\ a_ret = 3
    /\ Len(a_calls) = 3 /\ a_sleeps = <<0, 20>>

\* C10: request_anthropic_engine raises nothing; a call all of whose
\* attempts raised returns None after exactly max_retries attempts.
C10_NoFatalClass ==
    /\ a_raised = "None"
    /\ a_pc # "raised"
    /\ (a_pc = "done" /\ a_ret = 0)
          => (Len(a_log) = a_args.max_retries /\ a_retries = a_args.max_retries)
    /\ (a_pc = "done" /\ a_ret # 0) => a_retries = Len(a_log) + 1
    /\ a_retries <= a_args.max_retries

\* every attempt of a call with max_retries = 3 raised, a BadRequestError
\* among them, and the call returned None
C10_Witness ==
    /\ a_pc = "done" /\ a_ret = 0 /\ a_args.max_retries = 3
    /\ \E i \in 1..Len(a_log) : a_log[i].cls = "BadRequestError"

\* the annotation of the prompt cache raised on every attempt
C10_WitnessAnnotation ==
    /\ a_pc = "done" /\ a_ret = 0 /\ a_args.max_retries = 2
    /\ \A i \in 1..Len(a_log) : a_log[i].cls = "TypeError"


\* C11: a string prompt gives [system, user(prompt)] with both
\* builders; a list prompt gives [system] + list with the OpenAI-style
\* builder and the list itself with the Anthropic-style builder.
C11_MessagesAsStated ==
    /\ (b_chatgpt.called /\ ~b_chatgpt.message.is_list)
          => b_chatgpt.messages
                = <<Entry("system", b_chatgpt.system_message),
                    Entry("user", b_chatgpt.message.text)>>
    /\ (b_anthropic.called /\ ~b_anthropic.message.is_list)
          => /\ Len(b_anthropic.messages) = 2
             /\ b_anthropic.messages[1] = Entry("system", b_anthropic.system_message)
             /\ b_anthropic.messages[2].role = "user"
             /\ b_anthropic.messages[2].content = b_anthropic.message.text
    /\ (b_chatgpt.called /\ b_chatgpt.message.is_list)
          => b_chatgpt.messages
                = <<Entry("system", b_chatgpt.system_message)>> \o b_chatgpt.message.items
    /\ (b_anthropic.called /\ b_anthropic.message.is_list)
          => b_anthropic.messages = b_anthropic.message.items

\* a file of the tree that main was to format and could not read, parse or
\* write
FileFailed(f) ==
    /\ Matched(f, f_args.recursive)
    /\ \/ ~Readable(f)
       \/ ~IsJSON(f)
       \/ Layout(f) # f_args.indent /\ ~Writable(f)

SomeFileFailed == \E i \in 1..Len(f_args.tree) : FileFailed(f_args.tree[i])

ArgsRejected == f_args.dir # "dir" \/ f_args.indent < 0

\* C12: main returns a non-zero status only if at least one file failed to
\* be read, parsed or written; when no file fails the status is 0.
C12_ExitStatusAsStated ==
    f_pc = "exit" =>
        /\ f_status # 0 => (f_errors > 0 /\ SomeFileFailed)
        /\ f_errors = 0 => f_status = 0

\* C12 (amended): main returns 2 exactly when it rejects its arguments (the
\* directory is missing or is not a directory, or the indent is negative),
\* before looking at any file; otherwise it returns 1 exactly when at least
\* one file failed to be read, parsed or written, and 0 when none failed.
C12_ExitStatus ==
    f_pc = "exit" =>
        /\ f_status = 2 <=> ArgsRejected
        /\ f_status = 1 <=> (~ArgsRejected /\ SomeFileFailed)
        /\ f_status = 0 <=> (~ArgsRejected /\ ~SomeFileFailed)
        /\ ArgsRejected => f_errors = 0 /\ f_next = 1
        /\ ~ArgsRejected => f_changed + f_skipped + f_errors = Len(f_files)

\* main ran over a tree where one file was rewritten and another could not
\* be written, and returned 1
C12_Witness ==
    /\ f_pc = "exit"
    /\ f_status = 1
    /\ f_changed = 1
    /\ f_errors = 1
    /\ \E i \in 1..Len(f_files) : f_files[i].kind = "locked_ragged"

\* the token ceiling the call was configured with
Ceiling(t) == Or(config0[t].max_tokens, config0[t].max_completion_tokens)

\* C13: the ceiling is raised and the request re-dispatched only if the
\* response of the main loop has empty or absent content, its reasoning
\* tokens have consumed the whole configured ceiling, and it has no accepted
\* prediction tokens.
C13_BumpPrecondition ==
    \A t \in Threads :
        phase[t] = "bump" =>
            /\ EmptyContent(first_ret[t])
            /\ first_ret[t].reasoning_tokens >= Ceiling(t)
            /\ first_ret[t].accepted_prediction_tokens \in {0, None}

\* C14: nothing but the bump retry changes the caller's config: it is as
\* passed throughout the main loop of request_chatgpt_engine and throughout
\* request_anthropic_engine, with or without prompt_cache.
C14_ConfigFrameAsStated ==
    /\ \A t \in Threads : phase[t] = "main" => config[t] = config0[t]
    /\ a_config = a_config0

\* C14 (amended): the caller's config is as passed throughout the main loop
\* of request_chatgpt_engine and throughout request_anthropic_engine without
\* prompt_cache; with prompt_cache, request_anthropic_engine sets
\* cache_control on the first block of the first message of the caller's
\* config at every attempt that gets to a dispatch, and changes nothing else.
C14_ConfigFrame ==
    /\ \A t \in Threads : phase[t] = "main" => config[t] = config0[t]
    /\ \A t \in Threads : phase[t] = "bump" => config[t] = BumpConfig(config0[t])
    /\ ~a_args.prompt_cache => a_config = a_config0
    /\ a_config.messages = a_config0.messages
    /\ a_config.cache_control <=> (a_args.prompt_cache /\ a_calls # <<>>)

\* request_anthropic_engine has returned from a call with prompt_cache that
\* failed once and then succeeded, and the caller's config is annotated
C14_Witness ==
    /\ a_pc = "done"
    /\ a_args.prompt_cache
    /\ Len(a_calls) = 2
    /\ a_ret = 2
    /\ a_config # a_config0

\* the entry point request_anthropic_engine dispatches on, by its arguments
EntryPoint ==
    IF a_args.prompt_cache /\ a_args.has_prompt_caching
    THEN "beta.prompt_caching.messages.create"
    ELSE "messages.create"

\* what is observed of request_anthropic_engine is a function of the
\* provider's outcomes alone
AnthropicObserved ==
    /\ Len(a_sleeps) = Len(a_log)
    /\ \A i \in 1..Len(a_sleeps) : a_sleeps[i] = AnthropicBackoffStep * (i - 1)
    /\ \A i \in 1..Len(a_calls) : a_calls[i] = EntryPoint
    /\ a_pc \in {"attempt", "in_call"} => a_retries = Len(a_log)
    /\ a_pc = "sleep" => a_retries + 1 = Len(a_log)
    /\ a_pc = "done" =>
          \/ a_ret = 0 /\ Len(a_log) = a_args.max_retries
          \/ a_ret # 0 /\ a_ret = Len(a_calls) /\ a_retries = Len(a_log) + 1

\* an attempt that raised is followed by its sleep, and the sleep by the
\* next attempt while attempts remain
AnthropicNeverAborts ==
    /\ Len(a_log') > Len(a_log) =>
          /\ a_pc' = "sleep"
          /\ a_sleeps' = Append(a_sleeps, AnthropicBackoffStep * a_retries)
          /\ a_remaining' = AnthropicBackoffStep * a_retries
    /\ (a_pc = "sleep" /\ a_pc' # "sleep") =>
          /\ a_remaining = 0
          /\ a_pc' = IF a_retries' < a_args.max_retries THEN "attempt" ELSE "done"

\* C15: the timeout of request_anthropic_engine is diagnostic only: an
\* attempt that took the timeout or longer neither ends the loop nor skips
\* the sleep, and the dispatches, the sleep durations and the value returned
\* are the same function of the provider's outcomes whatever the timeout and
\* the time the attempts took.
C15_TimeoutDiagnostic == []AnthropicObserved /\ [][AnthropicNeverAborts]_vars

\* the first attempt timed out, the second raised at once, the third
\* succeeded: the sleeps and the value returned are those of any two failures
C15_Witness ==
    /\ a_pc = "done" /\ a_ret = 3
    /\ Len(a_log) = 2
    /\ a_log[1].msg = "Request timed out. Retrying..."
    /\ a_log[2].msg = "Retrying after an unknown error..."
    /\ a_sleeps = <<0, AnthropicBackoffStep>>

\* C16: no thread that is inside a provider call holds the cooldown lock
\* (the lock is held in the gate only), so the other threads can pass the
\* gate while calls are in flight.
C16_LockNotHeldInCall ==
    \A t \in Threads :
        /\ pc[t] = "in_call" => lock # t
        /\ lock = t => pc[t] \in {"gate_sleep", "gate_mark"}

\* two threads are inside a provider call at once and the lock is free
C16_Witness ==
    /\ \A t \in Threads : pc[t] = "in_call"
    /\ lock = NoLock

\* the gate passes and the dispatches of each call alternate, a gate pass
\* first
GateThenDispatch ==
    \A t \in Threads :
        /\ ngate[t] \in {ndisp[t], ndisp[t] + 1}
        /\ pc[t] = "dispatch" <=> ngate[t] = ndisp[t] + 1
        /\ pc[t] \in {"backoff", "in_call"} => ngate[t] = ndisp[t]

\* a dispatch follows a gate pass of its own, and a gate pass writes the
\* last-request timestamp
OwnGatePass ==
    \A t \in Threads :
        /\ ndisp'[t] # ndisp[t] =>
              (ndisp'[t] = ndisp[t] + 1 /\ ngate[t] = ndisp[t] + 1
                  /\ ngate'[t] = ngate[t])
        /\ ngate'[t] # ngate[t] =>
              (ngate'[t] = ngate[t] + 1 /\ ngate[t] = ndisp[t]
                  /\ since_last' = 0 /\ pc'[t] = "dispatch")

\* C17: within a call of request_chatgpt_engine every dispatch, of the while
\* loop (after a backoff sleep too) and of the bump, directly follows a
\* completed gate pass of its own that wrote the last-request timestamp.
C17_GateBeforeDispatch == []GateThenDispatch /\ [][OwnGatePass]_vars

\* a call slept after a failure, passed the gate again, got an empty
\* response, passed the gate a third time and is in its bumped dispatch
C17_Witness ==
    \E t \in Threads :
        /\ phase[t] = "bump" /\ pc[t] = "in_call"
        /\ nsleep[t] = 1
        /\ ngate[t] = 3 /\ ndisp[t] = 3

\* C18: every sleep requested has a non-negative duration: the cooldown
\* wait, the waits after an error of request_chatgpt_engine and the waits of
\* request_anthropic_engine.
C18_SleepsNonNegative ==
    /\ \A t \in Threads : sleep_arg[t] >= 0 /\ wait[t] >= 0
    /\ \A i \in 1..Len(a_sleeps) : a_sleeps[i] >= 0

\* C19: a sleep follows every failed attempt, the last one included: the
\* sleeps of request_anthropic_engine are as many as its failed attempts and,
\* when all max_retries attempts failed, add up to 10 s times
\* 0 + 1 + ... + (max_retries - 1); request_chatgpt_engine has slept once per
\* retryable failure, max_retries times when it returns None.
C19_SleepPerFailure ==
    /\ Len(a_sleeps) = Len(a_log)
    /\ (a_pc = "done" /\ a_ret = 0) =>
          /\ Len(a_sleeps) = a_args.max_retries
          /\ 2 * SeqSum(a_sleeps)
                = AnthropicBackoffStep * a_args.max_retries * (a_args.max_retries - 1)
    /\ \A t \in Threads :
          /\ (phase[t] = "main" /\ e[t].cls # "BadRequestError")
                => nsleep[t] = nfail[t]
          /\ (pc[t] = "done" /\ ret[t] = NoResponse)
                => nsleep[t] = max_retries[t]

\* C20: under fair scheduling every call of request_chatgpt_engine
\* eventually returns or raises, whatever the other threads do (from some
\* point on every thread has returned, raised or never called), the lock
\* ends up free, and no thread has the lock once it has left the gate or
\* its call has ended.
C20_Termination ==
    /\ <>[](\A t \in Threads : pc[t] \in {"idle", "done", "raised"})
    /\ <>[](lock = NoLock)
    /\ [](\A t \in Threads :
             pc[t] \notin {"gate_sleep", "gate_mark"} => lock # t)

\* every thread made a call that passed the gate, one call slept after a
\* failure, one made the bumped dispatch, and all have ended with the lock
\* free
C20_Witness ==
    /\ \A t \in Threads : Terminated(t) /\ ngate[t] >= 1
    /\ \E t \in Threads : nsleep[t] >= 1
    /\ \E t \in Threads : phase[t] = "bump" /\ ngate[t] = 2
    /\ lock = NoLock

====
